---- MODULE Spec2Model ----
(***************************************************************************)
(* Model of skillmodels/estimation/wa_functions.py: the moment-based (WA)  *)
(* estimator.  Every function of the file is a pure function of its        *)
(* arguments, so the state is the frame of one call: the function that is  *)
(* called (fn), its arguments (args), the position of the call (pc) and    *)
(* what it returned or raised (ret); log lists the library calls and the   *)
(* console output the call made.  Init draws one call with its arguments   *)
(* from bounded sets, the action of the function executes it.              *)
(*                                                                         *)
(* Numbers are numpy float64 values modelled as extended rationals         *)
(* <<n, d>> in lowest terms with d >= 0: d > 0 is the finite number n/d,   *)
(* <<1, 0>> is +inf, <<-1, 0>> is -inf and <<0, 0>> is NaN.  Arithmetic is *)
(* exact: rounding and overflow of float64 are outside the model.          *)
(***************************************************************************)
EXTENDS Integers, Naturals, Sequences, FiniteSets, TLC

VARIABLES fn, args, pc, ret, log

vars == <<fn, args, pc, ret, log>>

----
(* Bounds of the model. *)

\* largest number of measurement columns of a data table
MaxMeas == 4

\* largest value a normalization fixes a loading or an intercept to
MaxNormVal == 2

\* largest number of latent factors
MaxFactors == 2

\* largest number of rows of a wide data table
MaxRows == 3

\* largest number of observations of an iv regression
MaxObs == 3

\* largest number of permutations of the anchoring residual variances
MaxPerms == 2

----
(* float64 arithmetic on extended rationals. *)

Abs(i) == IF i < 0 THEN -i ELSE i

Sgn(i) == IF i < 0 THEN -1 ELSE IF i > 0 THEN 1 ELSE 0

RECURSIVE GCD(_, _)
GCD(a, b) == IF b = 0 THEN a ELSE GCD(b, a % b)

\* the float with value n/d; n/0 is +-inf and 0/0 is NaN
Q(n, d) ==
    IF d = 0 THEN <<Sgn(n), 0>>
    ELSE LET g == GCD(Abs(n), Abs(d))
             s == Sgn(d)
         IN  <<(s * n) \div g, (s * d) \div g>>

NaN == <<0, 0>>

Flt(i) == <<i, 1>>

IsNaN(x) == x = NaN

IsFinite(x) == x[2] > 0

\* x + y: inf + (-inf) is NaN, NaN propagates
FAdd(x, y) ==
    IF x[2] = 0 /\ y[2] = 0
    THEN (IF x = y THEN x ELSE NaN)
    ELSE Q(x[1] * y[2] + y[1] * x[2], x[2] * y[2])

FNeg(x) == <<-x[1], x[2]>>

FSub(x, y) == FAdd(x, FNeg(y))

\* x * y: 0 * inf is NaN
FMul(x, y) == Q(x[1] * y[1], x[2] * y[2])

\* x / y: numpy float division never raises; x/0 is +-inf, 0/0 is NaN
FDiv(x, y) ==
    IF y[1] < 0 THEN Q(-(x[1] * y[2]), -(x[2] * y[1]))
    ELSE Q(x[1] * y[2], x[2] * y[1])

RECURSIVE FSum(_)
FSum(s) == IF s = <<>> THEN Flt(0) ELSE FAdd(FSum(SubSeq(s, 1, Len(s) - 1)), s[Len(s)])

\* np.mean of a list: its sum over its length; NaN for an empty list
NpMean(s) == FDiv(FSum(s), Flt(Len(s)))

Range(s) == {s[i] : i \in DOMAIN s}

----
(* loadings_from_covs *)

\* Estimates with the normalized measurement not excluded from the m_prime
RECURSIVE EstimatesKeepNorm(_, _, _, _, _)
EstimatesKeepNorm(measurements, cov, m, load_norm, load_norm_val) ==
    IF measurements = <<>> THEN <<>>
    ELSE LET m_prime == Head(measurements)
             rest == EstimatesKeepNorm(Tail(measurements), cov, m, load_norm, load_norm_val)
         IN  IF m_prime # m
             THEN <<FDiv(FMul(Flt(load_norm_val), cov[m, m_prime]),
                         cov[load_norm, m_prime])>> \o rest
             ELSE rest

\* the estimates of one measurement m: one ratio for every m_prime, in column
\* order, that is neither m nor the normalized measurement
RECURSIVE Estimates(_, _, _, _, _)
Estimates(measurements, cov, m, load_norm, load_norm_val) ==
    IF measurements = <<>> THEN <<>>
    ELSE LET m_prime == Head(measurements)
             rest == Estimates(Tail(measurements), cov, m, load_norm, load_norm_val)
         IN  IF m_prime \notin {m, load_norm}
             THEN LET nominator == FMul(Flt(load_norm_val), cov[m, m_prime])
                      denominator == cov[load_norm, m_prime]
                  IN  <<FDiv(nominator, denominator)>> \o rest
             ELSE rest

\* LoadingOf with the normalized measurement estimated like every other one
LoadingOfAllEstimated(measurements, cov, m, load_norm, load_norm_val) ==
    NpMean(EstimatesKeepNorm(measurements, cov, m, load_norm, load_norm_val))

\* the loading the loop body assigns to measurement m
LoadingOf(measurements, cov, m, load_norm, load_norm_val) ==
    IF m # load_norm
    THEN NpMean(Estimates(measurements, cov, m, load_norm, load_norm_val))
    ELSE Flt(load_norm_val)

\* loadings_from_covs with the assertion asking for 2 columns only
loadings_from_covs_min2(data, normalization) ==
    LET measurements == data.columns
        load_norm == normalization[1]
    IN  IF ~(Len(measurements) >= 2)
        THEN [ret |-> [raised |-> "AssertionError"], log |-> <<>>]
        ELSE IF load_norm \notin Range(measurements)
        THEN [ret |-> [raised |-> "KeyError"], log |-> <<"data.cov">>]
        ELSE [ret |-> [raised |-> "None",
                       value |-> [m \in Range(measurements) |->
                                    LoadingOf(measurements, data.cov, m,
                                              load_norm, normalization[2])]],
              log |-> <<"data.cov">>]

\* the call: AssertionError below 3 columns, KeyError from cov.loc when the
\* normalized measurement is no column, the loadings Series otherwise
loadings_from_covs(data, normalization) ==
    LET measurements == data.columns
        nmeas == Len(measurements)
        load_norm == normalization[1]
        load_norm_val == normalization[2]
    IN  IF ~(nmeas >= 3)
        THEN [ret |-> [raised |-> "AssertionError"], log |-> <<>>]
        ELSE IF load_norm \notin Range(measurements)
        THEN [ret |-> [raised |-> "KeyError"], log |-> <<"data.cov">>]
        ELSE [ret |-> [raised |-> "None",
                       value |-> [m \in Range(measurements) |->
                                    LoadingOf(measurements, data.cov, m,
                                              load_norm, load_norm_val)]],
              log |-> <<"data.cov">>]

----
(* Inputs of loadings_from_covs. *)

Names == 1 .. MaxMeas

\* a column order: the columns 1..n as supplied, reversed, or rotated by one
ColumnOrders(n) ==
    {[i \in 1 .. n |-> i], [i \in 1 .. n |-> n + 1 - i], [i \in 1 .. n |-> (i % n) + 1]}

UpperPairs(n) == {p \in (1 .. n) \X (1 .. n) : p[1] < p[2]}

\* the nonzero value the covariance of columns i and j takes when it is not zero
CovValue(i, j) == IF (i + j) % 2 = 0 THEN i + j ELSE -(i + j)

\* the variance of column i
VarValue(i) == 2 * i + 8

\* data.cov() with the covariances of the pairs in zero being exactly zero:
\* symmetric, positive variances on the diagonal
CovMatrix(n, zero) ==
    [p \in (1 .. n) \X (1 .. n) |->
        IF p[1] = p[2] THEN Flt(VarValue(p[1]))
        ELSE IF <<p[1], p[2]>> \in zero \/ <<p[2], p[1]>> \in zero THEN Flt(0)
        ELSE Flt(CovValue(p[1], p[2]))]

CovMatrices(n) == {CovMatrix(n, zero) : zero \in SUBSET UpperPairs(n)}

NoReturn == [raised |-> "None"]

InitLoadings ==
    /\ fn = "loadings_from_covs"
    /\ \E n \in 0 .. MaxMeas :
         \E columns \in ColumnOrders(n), cov \in CovMatrices(n),
            name \in Names, val \in 1 .. MaxNormVal :
            args = [data |-> [columns |-> columns, cov |-> cov],
                    normalization |-> <<name, val>>]
    /\ pc = "call"
    /\ ret = NoReturn
    /\ log = <<>>

\* one call of loadings_from_covs, from its entry to its return or raise
LoadingsFromCovs ==
    /\ fn = "loadings_from_covs"
    /\ pc = "call"
    /\ LET r == loadings_from_covs(args.data, args.normalization)
       IN  /\ ret' = r.ret
           /\ log' = r.log
           /\ pc' = IF r.ret.raised = "None" THEN "returned" ELSE "raised"
    /\ UNCHANGED <<fn, args>>

SpecLoadings == InitLoadings /\ [][LoadingsFromCovs]_vars

----
(* Claims about loadings_from_covs. *)

LoadingsCall == fn = "loadings_from_covs"

\* the call had at least 3 columns and a normalized measurement among them
LoadingsWellFormed ==
    /\ LoadingsCall
    /\ Len(args.data.columns) >= 3
    /\ args.normalization[1] \in Range(args.data.columns)

\* the third measurements of m: every column but m and the normalized one
Thirds(m) == Range(args.data.columns) \ {m, args.normalization[1]}

\* the ratio (normalization_value * cov(m, m_prime)) / cov(normalized, m_prime)
Ratio(m, m_prime) ==
    FDiv(FMul(Flt(args.normalization[2]), args.data.cov[m, m_prime]),
         args.data.cov[args.normalization[1], m_prime])

RECURSIVE SumOfRatios(_, _)
SumOfRatios(m, S) ==
    IF S = {} THEN Flt(0)
    ELSE LET x == CHOOSE x \in S : TRUE
         IN  FAdd(Ratio(m, x), SumOfRatios(m, S \ {x}))

\* some denominator cov(normalized, m_prime) of a loading ratio is exactly zero
ZeroDenominator ==
    \E m_prime \in Range(args.data.columns) \ {args.normalization[1]} :
        args.data.cov[args.normalization[1], m_prime] = Flt(0)

\* C1: with at least 3 columns and a normalized measurement that is one of
\* them, the call returns and the loading of the normalized measurement is
\* exactly the normalization value, whatever the covariances are.
C1_NormalizedLoadingIsValue ==
    (LoadingsWellFormed /\ pc # "call") =>
        /\ pc = "returned"
        /\ ret.value[args.normalization[1]] = Flt(args.normalization[2])

\* C1 witness: a returned call whose covariances made another loading NaN or
\* infinite, the normalized one being the value all the same
C1_Witness ==
    /\ LoadingsWellFormed
    /\ pc = "returned"
    /\ ZeroDenominator
    /\ \E m \in Range(args.data.columns) : ~IsFinite(ret.value[m])
    /\ ret.value[args.normalization[1]] = Flt(args.normalization[2])

\* C2: the loading of every measurement m other than the normalized one is
\* the equal-weight mean of the ratios over its n-2 third measurements, and it
\* is the loading the call returns for the columns in their order 1..n.
C2_LoadingIsMeanOfRatios ==
    (LoadingsWellFormed /\ pc = "returned") =>
        LET n == Len(args.data.columns)
            sorted == [args.data EXCEPT !.columns = [i \in 1 .. n |-> i]]
        IN  \A m \in Range(args.data.columns) \ {args.normalization[1]} :
                /\ Cardinality(Thirds(m)) = n - 2
                /\ Len(Estimates(args.data.columns, args.data.cov, m,
                                 args.normalization[1], args.normalization[2])) = n - 2
                /\ ret.value[m] = FDiv(SumOfRatios(m, Thirds(m)), Flt(n - 2))
                /\ ret.value[m] = loadings_from_covs(sorted, args.normalization).ret.value[m]

\* C2 witness: a returned call with 4 columns not in the order 1..n and a
\* loading that is the mean of two different finite ratios
C2_Witness ==
    /\ LoadingsWellFormed
    /\ pc = "returned"
    /\ Len(args.data.columns) >= 4
    /\ args.data.columns # [i \in 1 .. Len(args.data.columns) |-> i]
    /\ \E m \in Range(args.data.columns) \ {args.normalization[1]} :
         /\ IsFinite(ret.value[m])
         /\ \E x, y \in Thirds(m) :
              /\ Ratio(m, x) # Ratio(m, y)
              /\ ret.value[m] # Ratio(m, x)

\* C3: a call with fewer than 3 columns raises the assertion error before
\* data.cov() is called and returns nothing; a call with 3 or more columns
\* never raises it.
C3_FewerThanThreeRaises ==
    (LoadingsCall /\ pc # "call") =>
        IF Len(args.data.columns) < 3
        THEN /\ pc = "raised"
             /\ ret.raised = "AssertionError"
             /\ "value" \notin DOMAIN ret
             /\ log = <<>>
        ELSE ret.raised # "AssertionError"

\* C3 witness: a call with exactly 2 columns that raised
C3_Witness ==
    /\ LoadingsCall
    /\ Len(args.data.columns) = 2
    /\ pc = "raised"
    /\ ret.raised = "AssertionError"

\* C4: whenever a denominator covariance of a loading ratio is exactly zero
\* the call raises a degenerate-covariance error and returns no loadings
\* vector with a NaN or infinite entry.
C4_ZeroDenominatorRaises ==
    (LoadingsWellFormed /\ pc # "call" /\ ZeroDenominator) =>
        /\ pc = "raised"
        /\ "value" \notin DOMAIN ret

----
(* intercepts_from_means *)

\* the factor mean solved from the mean equation of the normalized measurement
FactorMean(data, normalization, loadings) ==
    LET intercept_norm == normalization[1]
        intercept_norm_val == normalization[2]
        loading == loadings[intercept_norm]
    IN  FDiv(FSub(data.mean[intercept_norm], Flt(intercept_norm_val)), loading)

\* InterceptOf with the loading of the normalized measurement used for every
\* measurement
InterceptOfStaleLoading(data, normalization, loadings, factor_mean, meas) ==
    IF meas # normalization[1]
    THEN FSub(data.mean[meas], FMul(loadings[normalization[1]], factor_mean))
    ELSE Flt(normalization[2])

\* the intercept the loop body assigns to measurement meas
InterceptOf(data, normalization, loadings, factor_mean, meas) ==
    IF meas # normalization[1]
    THEN LET loading == loadings[meas]
         IN  FSub(data.mean[meas], FMul(loading, factor_mean))
    ELSE Flt(normalization[2])

\* intercepts_from_means returning a factor mean of 0 without a normalization
intercepts_from_means_zero_mean(data, normalization, loadings) ==
    IF Len(normalization) = 0
    THEN [raised |-> "None",
          value |-> [intercepts |-> [m \in Range(data.columns) |-> data.mean[m]],
                     factor_mean |-> Flt(0)]]
    ELSE IF normalization[1] \notin DOMAIN loadings
            \/ normalization[1] \notin Range(data.columns)
    THEN [raised |-> "KeyError"]
    ELSE LET factor_mean == FactorMean(data, normalization, loadings)
         IN  [raised |-> "None",
              value |-> [intercepts |->
                            [m \in Range(data.columns) |->
                                InterceptOf(data, normalization, loadings, factor_mean, m)],
                         factor_mean |-> factor_mean]]

\* the call: the column means and no factor mean without a normalization;
\* KeyError when the normalized measurement has no loading or is no column;
\* the intercepts Series and the factor mean otherwise
intercepts_from_means(data, normalization, loadings) ==
    LET measurements == data.columns
    IN  IF Len(normalization) = 0
        THEN [raised |-> "None",
              value |-> [intercepts |-> [m \in Range(measurements) |-> data.mean[m]],
                         factor_mean |-> "None"]]
        ELSE IF normalization[1] \notin DOMAIN loadings
                \/ normalization[1] \notin Range(measurements)
        THEN [raised |-> "KeyError"]
        ELSE LET factor_mean == FactorMean(data, normalization, loadings)
             IN  [raised |-> "None",
                  value |-> [intercepts |->
                                [m \in Range(measurements) |->
                                    InterceptOf(data, normalization, loadings,
                                                factor_mean, m)],
                             factor_mean |-> factor_mean]]

----
(* Inputs of intercepts_from_means. *)

\* data.mean(): the mean of column i is 1 or a value of its own
MeanVectors(n) == {[i \in 1 .. n |-> Flt(IF i \in big THEN 2 * i + 1 ELSE 1)] :
                      big \in SUBSET (1 .. n)}

\* loadings as estimated before: the loading of column i is 0 or i/2
LoadingVectors(n) == {[i \in 1 .. n |-> IF i \in nonzero THEN Q(i, 2) ELSE Flt(0)] :
                         nonzero \in SUBSET (1 .. n)}

\* the empty normalization and every pair (name, value)
Normalizations == {<<>>} \cup (Names \X (1 .. MaxNormVal))

InitIntercepts ==
    /\ fn = "intercepts_from_means"
    /\ \E n \in 0 .. MaxMeas :
         \E mean \in MeanVectors(n), loadings \in LoadingVectors(n),
            normalization \in Normalizations :
            args = [data |-> [columns |-> [i \in 1 .. n |-> i], mean |-> mean],
                    normalization |-> normalization,
                    loadings |-> loadings]
    /\ pc = "call"
    /\ ret = NoReturn
    /\ log = <<>>

\* one call of intercepts_from_means, from its entry to its return or raise
InterceptsFromMeans ==
    /\ fn = "intercepts_from_means"
    /\ pc = "call"
    /\ ret' = intercepts_from_means(args.data, args.normalization, args.loadings)
    /\ pc' = IF ret'.raised = "None" THEN "returned" ELSE "raised"
    /\ UNCHANGED <<fn, args, log>>

SpecIntercepts == InitIntercepts /\ [][InterceptsFromMeans]_vars

----
(* Claims about intercepts_from_means. *)

InterceptsCall == fn = "intercepts_from_means"

\* the call had a normalization whose measurement is a column with a loading
InterceptsNormalized ==
    /\ InterceptsCall
    /\ Len(args.normalization) # 0
    /\ args.normalization[1] \in Range(args.data.columns)

\* C5: with a normalization (name, value) the call returns factor_mean =
\* (mean(name) - value) / loading(name), the intercept value for name, and
\* mean(m) - loading(m) * factor_mean, with that factor_mean, for every other m.
C5_NormalizedIntercepts ==
    (InterceptsNormalized /\ pc # "call") =>
        LET name == args.normalization[1]
            value == Flt(args.normalization[2])
            factor_mean == FDiv(FSub(args.data.mean[name], value), args.loadings[name])
        IN  /\ pc = "returned"
            /\ ret.value.factor_mean = factor_mean
            /\ ret.value.intercepts[name] = value
            /\ \A m \in Range(args.data.columns) \ {name} :
                 ret.value.intercepts[m] =
                     FSub(args.data.mean[m], FMul(args.loadings[m], factor_mean))

\* C5 witness: a returned call with a finite nonzero factor mean and another
\* measurement whose loading differs from the one of the normalized measurement
C5_Witness ==
    /\ InterceptsNormalized
    /\ pc = "returned"
    /\ IsFinite(ret.value.factor_mean)
    /\ ret.value.factor_mean # Flt(0)
    /\ \E m \in Range(args.data.columns) \ {args.normalization[1]} :
         /\ args.loadings[m] # args.loadings[args.normalization[1]]
         /\ ret.value.intercepts[m] # args.data.mean[m]

\* C6: with an empty normalization every intercept is the mean of its column,
\* whatever loadings are passed in, and the factor mean is None; the factor
\* mean of a returned call is None if and only if the normalization is empty.
C6_MeansWithoutNormalization ==
    (InterceptsCall /\ pc = "returned") =>
        /\ (ret.value.factor_mean = "None") <=> (Len(args.normalization) = 0)
        /\ Len(args.normalization) = 0 =>
             /\ DOMAIN ret.value.intercepts = Range(args.data.columns)
             /\ \A m \in Range(args.data.columns) :
                  ret.value.intercepts[m] = args.data.mean[m]
             /\ \A other \in LoadingVectors(Len(args.data.columns)) :
                  intercepts_from_means(args.data, args.normalization, other) = ret

\* C6 witness: a returned call without normalization, with columns and with a
\* loading that is not zero
C6_Witness ==
    /\ InterceptsCall
    /\ pc = "returned"
    /\ Len(args.normalization) = 0
    /\ Len(args.data.columns) >= 2
    /\ \E m \in Range(args.data.columns) : args.loadings[m] # Flt(0)
    /\ ret.value.factor_mean = "None"

----
(* factor_covs_and_measurement_error_variances *)

\* Series.mean() of pandas: NaN entries are skipped; NaN when nothing is left
PdMean(s) ==
    LET kept == SelectSeq(s, LAMBDA x : ~IsNaN(x))
    IN  IF kept = <<>> THEN NaN ELSE FDiv(FSum(kept), Flt(Len(kept)))

\* scaled_meas_cov: meas_cov divided by the loadings along both axes, its
\* diagonal then overwritten with NaN
ScaledMeasCov(meas_cov, loadings) ==
    [p \in DOMAIN meas_cov |->
        IF p[1] = p[2] THEN NaN
        ELSE FDiv(FDiv(meas_cov[p], loadings[p[1]]), loadings[p[2]])]

\* diag_series as first built: the diagonal of the scaled matrix
DiagSeries(meas_cov, loadings) ==
    [m \in DOMAIN loadings |-> FDiv(FDiv(meas_cov[m, m], loadings[m]), loadings[m])]

\* relevant.mean().mean(): the mean over the columns (meas_list2) of the means
\* of each column over its rows (meas_list1)
CovEstimate(scaled_meas_cov, meas_list1, meas_list2) ==
    LET column_mean(m2) ==
            PdMean([r \in 1 .. Len(meas_list1) |-> scaled_meas_cov[meas_list1[r], m2]])
    IN  PdMean([c \in 1 .. Len(meas_list2) |-> column_mean(meas_list2[c])])

\* the pairs (f1, f2) of positions in factors with f2 >= f1, in loop order
RECURSIVE FactorPairs(_, _, _)
FactorPairs(f1, f2, nfac) ==
    IF f1 > nfac THEN <<>>
    ELSE IF f2 > nfac THEN FactorPairs(f1 + 1, 1, nfac)
    ELSE IF f2 >= f1 THEN <<<<f1, f2>>>> \o FactorPairs(f1, f2 + 1, nfac)
    ELSE FactorPairs(f1, f2 + 1, nfac)

\* one pass of the loop body for the pair (f1, f2): the estimate is appended
\* and, for f2 = f1, subtracted from diag_series at the measurements of f1
DecomposeStep(state, pair, factors, meas_per_factor, scaled_meas_cov) ==
    LET meas_list1 == meas_per_factor.lists[factors[pair[1]]]
        meas_list2 == meas_per_factor.lists[factors[pair[2]]]
        cov_estimate == CovEstimate(scaled_meas_cov, meas_list1, meas_list2)
    IN  [factor_covs |-> Append(state.factor_covs, cov_estimate),
         diag_series |->
            IF pair[2] = pair[1]
            THEN [m \in DOMAIN state.diag_series |->
                     IF m \in Range(meas_list1)
                     THEN FSub(state.diag_series[m], cov_estimate)
                     ELSE state.diag_series[m]]
            ELSE state.diag_series]

RECURSIVE DecomposeLoop(_, _, _, _, _)
DecomposeLoop(state, pairs, factors, meas_per_factor, scaled_meas_cov) ==
    IF pairs = <<>> THEN state
    ELSE DecomposeLoop(
             DecomposeStep(state, Head(pairs), factors, meas_per_factor, scaled_meas_cov),
             Tail(pairs), factors, meas_per_factor, scaled_meas_cov)

\* sorted(list(meas_per_factor.keys())); names of factors are numbers, their
\* order standing for the alphabetical one
SortedFactors(meas_per_factor) == SortSeq(meas_per_factor.keys, LAMBDA a, b : a < b)

\* the call: the factor covariances in loop order and the error variances
factor_covs_and_measurement_error_variances(meas_cov, loadings, meas_per_factor) ==
    LET factors == SortedFactors(meas_per_factor)
        scaled_meas_cov == ScaledMeasCov(meas_cov, loadings)
        done == DecomposeLoop(
                    [factor_covs |-> <<>>, diag_series |-> DiagSeries(meas_cov, loadings)],
                    FactorPairs(1, 1, Len(factors)), factors, meas_per_factor,
                    scaled_meas_cov)
    IN  [raised |-> "None",
         value |-> [factor_covs |-> done.factor_covs,
                    meas_error_variances |->
                        [m \in DOMAIN loadings |->
                            FMul(done.diag_series[m], FMul(loadings[m], loadings[m]))]]]

----
(* Inputs of factor_covs_and_measurement_error_variances. *)

\* covariance matrices of n measurements with at most one zero covariance
SparseCovMatrices(n) ==
    {CovMatrix(n, zero) : zero \in {{}} \cup {{p} : p \in UpperPairs(n)}}

\* finite nonzero loadings: all 1, or (i + 1)/2 for measurement i
NonzeroLoadingVectors(n) == {[i \in 1 .. n |-> Flt(1)], [i \in 1 .. n |-> Q(i + 1, 2)]}

\* the measurements listed under factor f, in ascending order
RECURSIVE MeasList(_, _, _, _)
MeasList(m, n, f, listed) ==
    IF m > n THEN <<>>
    ELSE IF <<m, f>> \in listed THEN <<m>> \o MeasList(m + 1, n, f, listed)
    ELSE MeasList(m + 1, n, f, listed)

\* the dictionaries of nfac factors over n measurements: every measurement is
\* listed under one factor, and at most one measurement under a second factor
\* too; the keys are inserted in ascending or in descending order
MeasPerFactorDicts(n, nfac) ==
    {[keys |-> keys,
      lists |-> [f \in 1 .. nfac |->
                    MeasList(1, n, f, {<<m, own[m]>> : m \in 1 .. n} \cup second)]] :
        keys \in {[k \in 1 .. nfac |-> k], [k \in 1 .. nfac |-> nfac + 1 - k]},
        own \in [1 .. n -> 1 .. nfac],
        second \in {{}} \cup {{p} : p \in (1 .. n) \X (1 .. nfac)}}

InitDecomposer ==
    /\ fn = "factor_covs_and_measurement_error_variances"
    /\ \E n \in 2 .. MaxMeas, nfac \in 1 .. MaxFactors :
         \E meas_cov \in SparseCovMatrices(n), loadings \in NonzeroLoadingVectors(n),
            meas_per_factor \in MeasPerFactorDicts(n, nfac) :
            args = [meas_cov |-> meas_cov, loadings |-> loadings,
                    meas_per_factor |-> meas_per_factor]
    /\ pc = "call"
    /\ ret = NoReturn
    /\ log = <<>>

\* one call of factor_covs_and_measurement_error_variances
FactorCovsAndMeasurementErrorVariances ==
    /\ fn = "factor_covs_and_measurement_error_variances"
    /\ pc = "call"
    /\ ret' = factor_covs_and_measurement_error_variances(
                  args.meas_cov, args.loadings, args.meas_per_factor)
    /\ pc' = "returned"
    /\ UNCHANGED <<fn, args, log>>

SpecDecomposer == InitDecomposer /\ [][FactorCovsAndMeasurementErrorVariances]_vars

----
(* Claims about factor_covs_and_measurement_error_variances. *)

DecomposerReturned ==
    fn = "factor_covs_and_measurement_error_variances" /\ pc = "returned"

NumFactors == Len(args.meas_per_factor.keys)

\* the measurements listed under factor f
ListedUnder(f) == Range(args.meas_per_factor.lists[f])

\* some measurement is listed under two factors
SharedMeasurement ==
    \E f1, f2 \in 1 .. NumFactors : f1 # f2 /\ ListedUnder(f1) \cap ListedUnder(f2) # {}

\* the place of the pair (f1, f2), f2 >= f1, in the row-major upper triangle
TrianglePlace(f1, f2) == (f1 - 1) * NumFactors - ((f1 - 1) * (f1 - 2)) \div 2 + (f2 - f1 + 1)

\* cov[m1, m2] / (loading(m1) * loading(m2))
Descaled(m1, m2) ==
    FDiv(args.meas_cov[m1, m2], FMul(args.loadings[m1], args.loadings[m2]))

RECURSIVE SumOfDescaled(_)
SumOfDescaled(S) ==
    IF S = {} THEN Flt(0)
    ELSE LET p == CHOOSE p \in S : TRUE
         IN  FAdd(Descaled(p[1], p[2]), SumOfDescaled(S \ {p}))

\* the equal-weight mean of the de-scaled covariances over the pairs (m1, m2),
\* m1 under f1, m2 under f2, m1 different from m2
EqualWeightMean(f1, f2) ==
    LET S == {p \in ListedUnder(f1) \X ListedUnder(f2) : p[1] # p[2]}
    IN  FDiv(SumOfDescaled(S), Flt(Cardinality(S)))

\* C7: the call returns F*(F+1)/2 factor covariances in row-major upper
\* triangular order over the sorted factors, each the equal-weight mean of the
\* de-scaled covariances of the pairs of different measurements of the two
\* factors, also when a measurement is listed under two factors.
C7_FactorCovsAreEqualWeightMeans ==
    DecomposerReturned =>
        /\ Len(ret.value.factor_covs) = (NumFactors * (NumFactors + 1)) \div 2
        /\ \A f1, f2 \in 1 .. NumFactors :
             f2 >= f1 =>
                 ret.value.factor_covs[TrianglePlace(f1, f2)] = EqualWeightMean(f1, f2)

\* C8: the error variance of every measurement m is
\* (cov[m, m] / loading(m)^2 - V) * loading(m)^2 with V the variance the call
\* estimated for a factor that lists m: V is subtracted exactly once, also
\* when m is listed under more than one factor.
C8_ErrorVarianceSubtractsOnce ==
    DecomposerReturned =>
        \A m \in DOMAIN args.loadings :
            \E f \in 1 .. NumFactors :
                /\ m \in ListedUnder(f)
                /\ LET squared == FMul(args.loadings[m], args.loadings[m])
                       V == ret.value.factor_covs[TrianglePlace(f, f)]
                   IN  ret.value.meas_error_variances[m] =
                           FMul(FSub(FDiv(args.meas_cov[m, m], squared), V), squared)

----
(* iv_reg_array_dict *)

\* the wide table is [index |-> sequence of row labels, columns |-> sequence of
\* (category, name) pairs, cell |-> value or NaN (missing) of (label, column)]

RECURSIVE Flatten(_)
Flatten(lists) == IF lists = <<>> THEN <<>> ELSE Head(lists) \o Flatten(Tail(lists))

\* UsedVariables with the instruments of the first group only
UsedVariablesFirstGroup(depvar_name, indepvar_names, instrument_names) ==
    <<<<"y", depvar_name>>>>
        \o [i \in 1 .. Len(indepvar_names) |-> <<"x", indepvar_names[i]>>]
        \o [i \in 1 .. Len(instrument_names[1]) |-> <<"z", instrument_names[1][i]>>]

\* used_variables: the dependent variable, the independent variables and
\* every instrument of every sublist
UsedVariables(depvar_name, indepvar_names, instrument_names) ==
    LET instruments == Flatten(instrument_names)
    IN  <<<<"y", depvar_name>>>>
            \o [i \in 1 .. Len(indepvar_names) |-> <<"x", indepvar_names[i]>>]
            \o [i \in 1 .. Len(instruments) |-> <<"z", instruments[i]>>]

\* data[used_variables].dropna(): the used columns, and the rows in which none
\* of them is missing, in their order
SelectAndDropNa(data, used_variables) ==
    [index |-> SelectSeq(data.index,
                         LAMBDA r : \A c \in Range(used_variables) : ~IsNaN(data.cell[r, c])),
     columns |-> used_variables,
     cell |-> data.cell]

\* the value of column (category, name) in row r once the constant columns of
\* the categories x and z are set to 1.0
CellWithConstant(data, r, category, name) ==
    IF name = "constant" THEN Flt(1) ELSE data.cell[r, <<category, name>>]

\* the transition functions that have a formula expansion iv_formula_<name>
RegisteredTransitions == {"linear"}

\* iv_formula_linear: every independent variable and the constant; every
\* instrument of every group and the constant
iv_formula_linear(indepvar_names, instrument_names) ==
    <<indepvar_names \o <<"constant">>, Flatten(instrument_names) \o <<"constant">>>>

\* dmatrix(formula, data[category]).values: one row per row of data, one column
\* per term of the formula
dmatrix(formula, data, category) ==
    [k \in 1 .. Len(data.index) |->
        [j \in 1 .. Len(formula) |-> CellWithConstant(data, data.index[k], category, formula[j])]]

\* iv_reg_array_dict with the linear expansion taken for a transition that has
\* none (a getattr with a default)
iv_reg_array_dict_default_linear(depvar_name, indepvar_names, instrument_names, transition_name, data) ==
    LET dropped == SelectAndDropNa(
                       data, UsedVariables(depvar_name, indepvar_names, instrument_names))
        formulas == iv_formula_linear(indepvar_names, instrument_names)
    IN  [raised |-> "None",
         value |-> [depvar_arr |-> [k \in 1 .. Len(dropped.index) |->
                                       dropped.cell[dropped.index[k], <<"y", depvar_name>>]],
                    indepvars_arr |-> dmatrix(formulas[1], dropped, "x"),
                    instruments_arr |-> dmatrix(formulas[2], dropped, "z"),
                    non_missing_index |-> dropped.index]]

\* the call: AttributeError from getattr for a transition without formula
\* expansion, the dictionary of arrays otherwise
iv_reg_array_dict(depvar_name, indepvar_names, instrument_names, transition_name, data) ==
    LET used_variables == UsedVariables(depvar_name, indepvar_names, instrument_names)
        dropped == SelectAndDropNa(data, used_variables)
        depvar_arr == [k \in 1 .. Len(dropped.index) |->
                          dropped.cell[dropped.index[k], <<"y", depvar_name>>]]
    IN  IF transition_name \notin RegisteredTransitions
        THEN [raised |-> "AttributeError"]
        ELSE LET formulas == iv_formula_linear(indepvar_names, instrument_names)
             IN  [raised |-> "None",
                  value |-> [depvar_arr |-> depvar_arr,
                             indepvars_arr |-> dmatrix(formulas[1], dropped, "x"),
                             instruments_arr |-> dmatrix(formulas[2], dropped, "z"),
                             non_missing_index |-> dropped.index]]

----
(* Inputs of iv_reg_array_dict. *)

\* the columns of the wide table
TableColumns == <<<<"y", "d">>, <<"x", "a">>, <<"x", "b">>, <<"z", "p">>, <<"z", "q">>>>

\* the cells of one row that are missing: none, any one, or all of them
MissingPatterns == {{}} \cup {{c} : c \in Range(TableColumns)} \cup {Range(TableColumns)}

\* the label of the row at position i
RowLabel(i) == 10 * i

\* the tables with nrows rows: the cell of row i and column j holds the number
\* 10 * i + j unless it is missing
WideTables(nrows) ==
    {[index |-> [i \in 1 .. nrows |-> RowLabel(i)],
      columns |-> TableColumns,
      cell |-> [p \in {RowLabel(i) : i \in 1 .. nrows} \X Range(TableColumns) |->
                   IF p[2] \in missing[CHOOSE i \in 1 .. nrows : RowLabel(i) = p[1]] THEN NaN
                   ELSE Flt(p[1] + CHOOSE j \in 1 .. Len(TableColumns) : TableColumns[j] = p[2])]] :
        missing \in [1 .. nrows -> MissingPatterns]}

InitIvRegArrayDict ==
    /\ fn = "iv_reg_array_dict"
    /\ \E nrows \in 0 .. MaxRows :
         \E data \in WideTables(nrows),
            indepvar_names \in {<<"a">>, <<"a", "b">>},
            instrument_names \in {<<<<"p">>>>, <<<<"p", "q">>>>, <<<<"p">>, <<"q">>>>},
            transition_name \in {"linear", "quadratic"} :
            args = [depvar_name |-> "d", indepvar_names |-> indepvar_names,
                    instrument_names |-> instrument_names,
                    transition_name |-> transition_name, data |-> data]
    /\ pc = "call"
    /\ ret = NoReturn
    /\ log = <<>>

\* one call of iv_reg_array_dict, from its entry to its return or raise
IvRegArrayDict ==
    /\ fn = "iv_reg_array_dict"
    /\ pc = "call"
    /\ ret' = iv_reg_array_dict(args.depvar_name, args.indepvar_names,
                                args.instrument_names, args.transition_name, args.data)
    /\ pc' = IF ret'.raised = "None" THEN "returned" ELSE "raised"
    /\ UNCHANGED <<fn, args, log>>

SpecIvRegArrayDict == InitIvRegArrayDict /\ [][IvRegArrayDict]_vars

----
(* Claims about iv_reg_array_dict. *)

IvArrayCall == fn = "iv_reg_array_dict"

\* the used variables as the claim lists them
UsedColumns ==
    {<<"y", args.depvar_name>>}
        \cup {<<"x", n>> : n \in Range(args.indepvar_names)}
        \cup {<<"z", n>> : n \in UNION {Range(g) : g \in Range(args.instrument_names)}}

\* row r of the input table misses none of the used variables
CompleteRow(r) == \A c \in UsedColumns : ~IsNaN(args.data.cell[r, c])

\* s is increasing in the positions of its entries in the input index
InInputOrder(s) ==
    \A k1, k2 \in 1 .. Len(s) :
        k1 < k2 =>
            \E i1, i2 \in 1 .. Len(args.data.index) :
                i1 < i2 /\ args.data.index[i1] = s[k1] /\ args.data.index[i2] = s[k2]

\* C9: a row is retained if and only if none of the used variables is missing
\* in it, whatever is missing in unused columns; the four returned arrays have
\* one row per retained row, in the order of the input rows.
C9_ListwiseDeletion ==
    (IvArrayCall /\ pc = "returned") =>
        LET kept == ret.value.non_missing_index
        IN  /\ \A r \in Range(args.data.index) : r \in Range(kept) <=> CompleteRow(r)
            /\ InInputOrder(kept)
            /\ Len(ret.value.depvar_arr) = Len(kept)
            /\ Len(ret.value.indepvars_arr) = Len(kept)
            /\ Len(ret.value.instruments_arr) = Len(kept)
            /\ \A k \in 1 .. Len(kept) :
                 /\ ret.value.depvar_arr[k] = args.data.cell[kept[k], <<"y", args.depvar_name>>]
                 /\ \A j \in 1 .. Len(args.indepvar_names) :
                      ret.value.indepvars_arr[k][j] =
                          args.data.cell[kept[k], <<"x", args.indepvar_names[j]>>]
                 /\ \A c \in UsedColumns :
                      c[1] = "z" =>
                          \E j \in 1 .. Len(ret.value.instruments_arr[k]) :
                              ret.value.instruments_arr[k][j] = args.data.cell[kept[k], c]

\* C9 witness: a returned call that dropped a row, kept a row with a missing
\* value in an unused column, and kept two rows
C9_Witness ==
    /\ IvArrayCall
    /\ pc = "returned"
    /\ Len(ret.value.non_missing_index) >= 2
    /\ Len(ret.value.non_missing_index) < Len(args.data.index)
    /\ \E r \in Range(ret.value.non_missing_index) :
         \E c \in Range(args.data.columns) \ UsedColumns : IsNaN(args.data.cell[r, c])
    /\ \E g1, g2 \in 1 .. Len(args.instrument_names) : g1 # g2

\* C10: whenever every row of a table with rows misses a used variable, so
\* that no row survives the deletion, the call raises and returns no arrays.
C10_NoRowsRaises ==
    (IvArrayCall /\ pc # "call"
        /\ Len(args.data.index) >= 1
        /\ \A r \in Range(args.data.index) : ~CompleteRow(r)) =>
        /\ pc = "raised"
        /\ "value" \notin DOMAIN ret

\* C11: a call with a transition function that has no formula expansion
\* iv_formula_<name> raises the error of the failed lookup and returns no
\* dictionary of arrays, for every table, also one no row of which survives
\* the deletion.
C11_UnknownTransitionRaises ==
    (IvArrayCall /\ pc # "call" /\ args.transition_name \notin RegisteredTransitions) =>
        /\ pc = "raised"
        /\ ret.raised = "AttributeError"
        /\ "value" \notin DOMAIN ret

\* C11 witness: a raised call with an unknown transition on a table with rows
\* none of which is complete
C11_Witness ==
    /\ IvArrayCall
    /\ pc = "raised"
    /\ ret.raised = "AttributeError"
    /\ args.transition_name \notin RegisteredTransitions
    /\ Len(args.data.index) >= 2
    /\ \A r \in Range(args.data.index) : ~CompleteRow(r)

----
(* iv_reg, _iv_math and _iv_gmm_weights *)

\* A vector is a sequence of floats, a matrix a sequence of rows.  The trace
\* of a call of iv_reg is kept in log: one record per executed statement of
\* lines 269-275 with its result (out), one per failed inversion and one per
\* print.

MatT(a) == [j \in 1 .. Len(a[1]) |-> [i \in 1 .. Len(a) |-> a[i][j]]]

\* a.dot(b) of two matrices
MatDot(a, b) ==
    [i \in 1 .. Len(a) |->
        [j \in 1 .. Len(b[1]) |-> FSum([k \in 1 .. Len(b) |-> FMul(a[i][k], b[k][j])])]]

\* a.dot(v) of a matrix and a vector
MatVec(a, v) ==
    [i \in 1 .. Len(a) |-> FSum([k \in 1 .. Len(v) |-> FMul(a[i][k], v[k])])]

MatDiv(a, c) == [i \in 1 .. Len(a) |-> [j \in 1 .. Len(a[i]) |-> FDiv(a[i][j], c)]]

MatFinite(a) == \A i \in 1 .. Len(a) : \A j \in 1 .. Len(a[i]) : IsFinite(a[i][j])

\* the Moore-Penrose inverse of a finite 1x1 or 2x2 matrix: the inverse of a
\* regular matrix, the transpose over the sum of the squared entries for rank
\* 1, the zero matrix for the zero matrix
PinvValue(a) ==
    IF Len(a) = 1
    THEN <<<<IF a[1][1] = Flt(0) THEN Flt(0) ELSE FDiv(Flt(1), a[1][1])>>>>
    ELSE LET det == FSub(FMul(a[1][1], a[2][2]), FMul(a[1][2], a[2][1]))
             squares == FSum(<<FMul(a[1][1], a[1][1]), FMul(a[1][2], a[1][2]),
                               FMul(a[2][1], a[2][1]), FMul(a[2][2], a[2][2])>>)
         IN  IF det # Flt(0)
             THEN <<<<FDiv(a[2][2], det), FDiv(FNeg(a[1][2]), det)>>,
                    <<FDiv(FNeg(a[2][1]), det), FDiv(a[1][1], det)>>>>
             ELSE IF squares = Flt(0) THEN a
             ELSE MatDiv(MatT(a), squares)

\* np.linalg.pinv(a): the pseudo-inverse of a finite matrix, singular or not.
\* For a matrix with a NaN or infinite entry the decomposition fails and
\* LinAlgError is raised, or, with other LAPACK builds, a matrix of NaN is
\* returned.
Pinv(a) ==
    IF MatFinite(a) THEN {[raised |-> "None", value |-> PinvValue(a)]}
    ELSE {[raised |-> "LinAlgError"],
          [raised |-> "None",
           value |-> [i \in 1 .. Len(a) |-> [j \in 1 .. Len(a[i]) |-> NaN]]]}

\* z.T.dot(z) / nobs
SecondMoment(z) == MatDiv(MatDot(MatT(z), z), Flt(Len(z)))

\* s: the sum over the observations of u_i^2 * z_i z_i^T, over nobs
ResidualWeighted(z, u) ==
    LET nobs == Len(z)
        k_prime == Len(z[1])
    IN  [a \in 1 .. k_prime |->
            [b \in 1 .. k_prime |->
                FDiv(FSum([i \in 1 .. nobs |->
                              FMul(FMul(u[i], u[i]), FMul(z[i][a], z[i][b]))]),
                     Flt(nobs))]]

\* the outcomes of _iv_gmm_weights(z, u); the empty vector stands for u=None,
\* nobs being positive.  Without u a failed inversion is
\* caught, two matrices are printed and the return of the unassigned w raises
\* UnboundLocalError; with u the LinAlgError is not caught.
iv_gmm_weights(z, u) ==
    IF u = <<>>
    THEN {IF p.raised = "None"
          THEN [raised |-> "None", value |-> p.value, log |-> <<>>]
          ELSE [raised |-> "UnboundLocalError",
                log |-> <<[op |-> "LinAlgError", out |-> SecondMoment(z)],
                          [op |-> "print", out |-> SecondMoment(z)],
                          [op |-> "print", out |-> z]>>] :
             p \in Pinv(SecondMoment(z))}
    ELSE {IF p.raised = "None"
          THEN [raised |-> "None", value |-> p.value, log |-> <<>>]
          ELSE [raised |-> "LinAlgError",
                log |-> <<[op |-> "LinAlgError", out |-> ResidualWeighted(z, u)]>>] :
             p \in Pinv(ResidualWeighted(z, u))}

\* the outcomes of _iv_math(y, x, z, w).  A failed inversion is caught, three
\* matrices are printed and the use of the unassigned inverse_part raises
\* UnboundLocalError.
iv_math(y, x, z, w) ==
    LET xTz == MatDot(MatT(x), z)
        helper == MatDot(xTz, w)
        bracket == MatDot(helper, MatT(xTz))
        y_part == MatVec(helper, MatVec(MatT(z), y))
    IN  {IF p.raised = "None"
         THEN [raised |-> "None", value |-> MatVec(p.value, y_part), log |-> <<>>]
         ELSE [raised |-> "UnboundLocalError",
               log |-> <<[op |-> "LinAlgError", out |-> bracket],
                         [op |-> "print", out |-> bracket],
                         [op |-> "print", out |-> z],
                         [op |-> "print", out |-> helper]>>] :
            p \in Pinv(bracket)}

\* Residuals with the fitted values added
ResidualsAdded(y, x, beta) ==
    LET fitted == MatVec(x, beta)
    IN  [i \in 1 .. Len(y) |-> FAdd(y[i], fitted[i])]

\* u = y - np.dot(x, beta)
Residuals(y, x, beta) ==
    LET fitted == MatVec(x, beta)
    IN  [i \in 1 .. Len(y) |-> FSub(y[i], fitted[i])]

\* the result of the last statement of the trace
LastOut == log[Len(log)].out

\* the trace after a statement op with argument arg that ended as outcome o
Traced(op, arg, o) ==
    log \o o.log \o (IF o.raised = "None"
                     THEN <<[op |-> op, arg |-> arg, out |-> o.value]>> ELSE <<>>)

\* line 269: w = _iv_gmm_weights(z)
IvRegFirstWeights ==
    /\ fn = "iv_reg"
    /\ pc = "call"
    /\ \E o \in iv_gmm_weights(args.instruments_arr, <<>>) :
         /\ log' = Traced("_iv_gmm_weights", <<>>, o)
         /\ pc' = IF o.raised = "None" THEN "w" ELSE "raised"
         /\ ret' = [raised |-> o.raised]
    /\ UNCHANGED <<fn, args>>

\* line 270: beta = _iv_math(y, x, z, w)
IvRegFirstSolve ==
    /\ fn = "iv_reg"
    /\ pc = "w"
    /\ \E o \in iv_math(args.depvar_arr, args.indepvars_arr, args.instruments_arr, LastOut) :
         /\ log' = Traced("_iv_math", LastOut, o)
         /\ pc' = IF o.raised = "None" THEN "beta" ELSE "raised"
         /\ ret' = [raised |-> o.raised]
    /\ UNCHANGED <<fn, args>>

\* lines 272-273: u = y - np.dot(x, beta) when fit_method is 'optimal'
IvRegResiduals ==
    /\ fn = "iv_reg"
    /\ pc = "beta"
    /\ args.fit_method = "optimal"
    /\ log' = Append(log, [op |-> "residuals", arg |-> LastOut,
                           out |-> Residuals(args.depvar_arr, args.indepvars_arr, LastOut)])
    /\ pc' = "u"
    /\ UNCHANGED <<fn, args, ret>>

\* line 274: w = _iv_gmm_weights(z, u)
IvRegSecondWeights ==
    /\ fn = "iv_reg"
    /\ pc = "u"
    /\ \E o \in iv_gmm_weights(args.instruments_arr, LastOut) :
         /\ log' = Traced("_iv_gmm_weights", LastOut, o)
         /\ pc' = IF o.raised = "None" THEN "w2" ELSE "raised"
         /\ ret' = [raised |-> o.raised]
    /\ UNCHANGED <<fn, args>>

\* line 275: beta = _iv_math(y, x, z, w)
IvRegSecondSolve ==
    /\ fn = "iv_reg"
    /\ pc = "w2"
    /\ \E o \in iv_math(args.depvar_arr, args.indepvars_arr, args.instruments_arr, LastOut) :
         /\ log' = Traced("_iv_math", LastOut, o)
         /\ pc' = IF o.raised = "None" THEN "beta2" ELSE "raised"
         /\ ret' = [raised |-> o.raised]
    /\ UNCHANGED <<fn, args>>

\* line 277: return beta, after line 270 unless fit_method is 'optimal'
IvRegReturn ==
    /\ fn = "iv_reg"
    /\ \/ pc = "beta" /\ args.fit_method # "optimal"
       \/ pc = "beta2"
    /\ ret' = [raised |-> "None", value |-> LastOut]
    /\ pc' = "returned"
    /\ UNCHANGED <<fn, args, log>>

----
(* Inputs of iv_reg. *)

\* the observations: 0 or 1 for the dependent variable, the regressor and the
\* instrument of each; except selects what is not a number: nothing, or the
\* first entry of the dependent variable, the regressor or the instrument
IvArrays(nobs) ==
    {[depvar_arr |-> [i \in 1 .. nobs |->
                         IF except = "y" /\ i = 1 THEN NaN ELSE Flt(IF i \in ys THEN 1 ELSE 0)],
      indepvars_arr |-> [i \in 1 .. nobs |->
                            <<IF except = "x" /\ i = 1 THEN NaN
                              ELSE Flt(IF i \in xs THEN 1 ELSE 0)>>],
      instruments_arr |-> [i \in 1 .. nobs |->
                              <<IF except = "z" /\ i = 1 THEN NaN
                                ELSE Flt(IF i \in zs THEN 1 ELSE 0),
                                Flt(1)>>]] :
        ys \in SUBSET (1 .. nobs), xs \in SUBSET (1 .. nobs), zs \in SUBSET (1 .. nobs),
        except \in {"none", "y", "x", "z"}}

InitIvReg ==
    /\ fn = "iv_reg"
    /\ \E nobs \in 1 .. MaxObs :
         \E arrays \in IvArrays(nobs), fit_method \in {"2sls", "optimal"} :
            args = [depvar_arr |-> arrays.depvar_arr,
                    indepvars_arr |-> arrays.indepvars_arr,
                    instruments_arr |-> arrays.instruments_arr,
                    fit_method |-> fit_method]
    /\ pc = "call"
    /\ ret = NoReturn
    /\ log = <<>>

NextIvReg ==
    \/ IvRegFirstWeights
    \/ IvRegFirstSolve
    \/ IvRegResiduals
    \/ IvRegSecondWeights
    \/ IvRegSecondSolve
    \/ IvRegReturn

SpecIvReg == InitIvReg /\ [][NextIvReg]_vars

----
(* Claims about iv_reg. *)

IvRegCall == fn = "iv_reg"

\* the statements of the trace, in the order they were executed
TraceOps == [i \in 1 .. Len(log) |-> log[i].op]

OneStepOps == <<"_iv_gmm_weights", "_iv_math">>

TwoStepOps == OneStepOps \o <<"residuals", "_iv_gmm_weights", "_iv_math">>

IsPrefix(s, t) == Len(s) <= Len(t) /\ s = SubSeq(t, 1, Len(s))

\* some inversion of the call failed
InversionFailed == \E i \in 1 .. Len(log) : log[i].op = "LinAlgError"

\* C12: in the 'optimal' mode the call computes, in this order, the weights
\* from the instruments alone, the coefficients for them, the residuals
\* u = y - X*beta of these coefficients, the weights from the instruments and
\* u, and the coefficients for the new weights, which it returns; in the
\* '2sls' mode it returns the first coefficients and computes neither
\* residuals nor second weights.
C12_TwoStepOrder ==
    IvRegCall =>
        LET y == args.depvar_arr
            x == args.indepvars_arr
            z == args.instruments_arr
            expected == IF args.fit_method = "optimal" THEN TwoStepOps ELSE OneStepOps
        IN  /\ pc # "raised" => IsPrefix(TraceOps, expected)
            /\ pc = "returned" =>
                 /\ TraceOps = expected
                 /\ log[1].arg = <<>>
                 /\ log[2].arg = log[1].out
                 /\ ret.value = log[Len(expected)].out
                 /\ args.fit_method = "optimal" =>
                      /\ \A i \in 1 .. Len(y) :
                           log[3].out[i] =
                               FSub(y[i], FSum([j \in 1 .. Len(x[i]) |->
                                                   FMul(x[i][j], log[2].out[j])]))
                      /\ log[4].arg = log[3].out
                      /\ log[5].arg = log[4].out
                      /\ \E o \in iv_math(y, x, z, log[4].out) :
                           o.raised = "None" /\ o.value = ret.value

\* C12 witness: a returned call of the 'optimal' mode whose second solve gave
\* finite coefficients other than those of the first solve
C12_Witness ==
    /\ IvRegCall
    /\ pc = "returned"
    /\ args.fit_method = "optimal"
    /\ IsFinite(ret.value[1])
    /\ ret.value # log[2].out
    /\ \E i \in 1 .. Len(log[3].out) : log[3].out[i] # Flt(0)

\* C13: when an inversion inside iv_reg fails the call does not crash: it
\* does not end in an exception.
C13_InversionFailureRecovered ==
    (IvRegCall /\ InversionFailed) => pc # "raised"

----
(* anchoring_error_variance_from_u_vars.  A name is a sequence of
   characters; u_vars, anch_loadings and the permutations are indexed from 1
   where the code counts from 0; meas_loadings is a function of the
   measurement name. *)

\* perm[f] with one character too few removed
meas_name_minus_5(entry) == SubSeq(entry, 1, Len(entry) - 5)

\* line 336: perm[f][:-6]
meas_name(entry) == SubSeq(entry, 1, Len(entry) - 6)

\* Series.sum / DataFrame.sum(axis=1): NaN entries are skipped
PdSum(s) == FSum(SelectSeq(s, LAMBDA x : ~IsNaN(x)))

\* lines 331-338: meas_noise_df, 0.0 in every cell, then one cell per
\* permutation and anchored factor
MeasNoiseDf(u_vars, indepvars_permutations, meas_loadings, anchored_factors) ==
    [p \in 1 .. Len(u_vars) |->
        [f \in 1 .. Len(anchored_factors) |->
            IF p <= Len(indepvars_permutations)
            THEN LET loading == meas_loadings[meas_name(indepvars_permutations[p][f])]
                     m_loading_squared == FMul(loading, loading)
                 IN  FDiv(u_vars[p], m_loading_squared)
            ELSE Flt(0)]]

\* lines 339-340: meas_noise_df *= anch_loadings ** 2, factor by factor
ScaledMeasNoise(meas_noise_df, anch_loadings) ==
    [p \in 1 .. Len(meas_noise_df) |->
        [f \in 1 .. Len(meas_noise_df[p]) |->
            FMul(meas_noise_df[p][f], FMul(anch_loadings[f], anch_loadings[f]))]]

\* the outcome of the call: KeyError of line 337 for a name without a
\* loading, else the mean of line 342
anchoring_error_variance_from_u_vars(u_vars, indepvars_permutations, anch_loadings, meas_loadings, anchored_factors) ==
    IF \E p \in 1 .. Len(indepvars_permutations) :
          \E f \in 1 .. Len(anchored_factors) :
             meas_name(indepvars_permutations[p][f]) \notin DOMAIN meas_loadings
    THEN [raised |-> "KeyError"]
    ELSE LET meas_noise_df == ScaledMeasNoise(
                 MeasNoiseDf(u_vars, indepvars_permutations, meas_loadings,
                             anchored_factors),
                 anch_loadings)
             anch_variance_estimates ==
                 [p \in 1 .. Len(u_vars) |-> FSub(u_vars[p], PdSum(meas_noise_df[p]))]
         IN  [raised |-> "None", value |-> PdMean(anch_variance_estimates)]

(* Inputs: up to MaxFactors anchored factors with two measurements each and
   up to MaxPerms permutations, each naming one measurement per factor. *)

Digits == <<"1", "2", "3", "4", "5">>

ResidSuffix == <<"_", "r", "e", "s", "i", "d">>

\* the k-th measurement of the f-th factor
AnchMeasName(f, k) == <<"y", Digits[f], IF k = 1 THEN "a" ELSE "b">>

\* loadings of both signs, never zero
AnchMeasLoadings(nfac) ==
    [n \in {AnchMeasName(f, k) : f \in 1 .. nfac, k \in 1 .. 2} |->
        LET f == CHOOSE g \in 1 .. nfac : n[2] = Digits[g]
        IN  IF n[3] = "a" THEN Flt(f) ELSE Flt(0 - (f + 1))]

UVarValues == {Flt(1), Flt(3)}

\* anchoring loadings: the same for every factor, or alternating
AnchLoadingVectors(nfac) ==
    {[f \in 1 .. nfac |-> Flt(2)],
     [f \in 1 .. nfac |-> IF f % 2 = 1 THEN Flt(-1) ELSE Flt(2)]}

InitAnchoring ==
    \E nfac \in 1 .. MaxFactors, nperm \in 1 .. MaxPerms :
    \E pick \in [(1 .. nperm) \X (1 .. nfac) -> 1 .. 2] :
    \E u_vars \in [1 .. nperm -> UVarValues] :
    \E anch_loadings \in AnchLoadingVectors(nfac) :
    \E unknown \in BOOLEAN :
        /\ fn = "anchoring_error_variance_from_u_vars"
        /\ args = [u_vars |-> u_vars,
                   indepvars_permutations |->
                       [p \in 1 .. nperm |->
                           [f \in 1 .. nfac |->
                               IF unknown /\ p = 1 /\ f = 1
                               THEN <<"y", "0", "a">> \o ResidSuffix
                               ELSE AnchMeasName(f, pick[<<p, f>>]) \o ResidSuffix]],
                   anch_loadings |-> anch_loadings,
                   meas_loadings |-> AnchMeasLoadings(nfac),
                   anchored_factors |-> [f \in 1 .. nfac |-> Digits[f]]]
        /\ pc = "call"
        /\ ret = NoReturn
        /\ log = <<>>

AnchoringErrorVarianceFromUVars ==
    /\ fn = "anchoring_error_variance_from_u_vars"
    /\ pc = "call"
    /\ LET o == anchoring_error_variance_from_u_vars(
                    args.u_vars, args.indepvars_permutations, args.anch_loadings,
                    args.meas_loadings, args.anchored_factors)
       IN  /\ ret' = o
           /\ pc' = IF o.raised = "None" THEN "returned" ELSE "raised"
    /\ UNCHANGED <<fn, args, log>>

SpecAnchoring == InitAnchoring /\ [][AnchoringErrorVarianceFromUVars]_vars

(* Claims about anchoring_error_variance_from_u_vars. *)

AnchoringCall == fn = "anchoring_error_variance_from_u_vars"

\* the measurements with a loading whose name followed by six more
\* characters is the entry
NamedBy(entry) ==
    {n \in DOMAIN args.meas_loadings :
        /\ Len(entry) = Len(n) + 6
        /\ \A i \in 1 .. Len(n) : entry[i] = n[i]}

AllNamed ==
    \A p \in 1 .. Len(args.indepvars_permutations) :
        \A f \in 1 .. Len(args.anchored_factors) :
            NamedBy(args.indepvars_permutations[p][f]) # {}

\* anch_loadings[f]^2 * u_vars[p] / meas_loadings[name(p, f)]^2
NoiseTerm(p, f) ==
    LET n == CHOOSE m \in NamedBy(args.indepvars_permutations[p][f]) : TRUE
        a == args.anch_loadings[f]
        l == args.meas_loadings[n]
    IN  FDiv(FMul(FMul(a, a), args.u_vars[p]), FMul(l, l))

\* u_vars[p] minus one term for every anchored factor
Remainder(p) ==
    FSub(args.u_vars[p],
         FSum([f \in 1 .. Len(args.anchored_factors) |-> NoiseTerm(p, f)]))

\* C14: the call returns the arithmetic mean, over all permutations p, of
\* u_vars[p] minus the sum over the anchored factors f of
\* anch_loadings[f]^2 * u_vars[p] / meas_loadings[name(p, f)]^2, name(p, f)
\* being the f-th entry of p without its last 6 characters: one term of the
\* mean for every permutation, one term of each sum for every factor.
C14_MeanOfRemainders ==
    (AnchoringCall /\ pc # "call" /\ AllNamed) =>
        /\ pc = "returned"
        /\ ret.raised = "None"
        /\ ret.value =
               NpMean([p \in 1 .. Len(args.indepvars_permutations) |-> Remainder(p)])

\* C14 witness: a returned call with two permutations that name different
\* measurements of two factors, and with different residual variances
C14_Witness ==
    /\ AnchoringCall
    /\ pc = "returned"
    /\ Len(args.indepvars_permutations) >= 2
    /\ Len(args.anchored_factors) >= 2
    /\ args.indepvars_permutations[1][1] # args.indepvars_permutations[2][1]
    /\ args.indepvars_permutations[1][2] # args.indepvars_permutations[2][2]
    /\ args.u_vars[1] # args.u_vars[2]
    /\ args.anch_loadings[1] # args.anch_loadings[2]
    /\ Remainder(1) # Remainder(2)
    /\ IsFinite(ret.value)

----
(* The module as a whole: one call of any of its functions. *)

Init ==
    InitLoadings \/ InitIntercepts \/ InitDecomposer \/ InitIvRegArrayDict \/ InitIvReg
    \/ InitAnchoring

Next ==
    \/ LoadingsFromCovs
    \/ InterceptsFromMeans
    \/ FactorCovsAndMeasurementErrorVariances
    \/ IvRegArrayDict
    \/ NextIvReg
    \/ AnchoringErrorVarianceFromUVars

Spec == Init /\ [][Next]_vars

====
